---- MODULE Spec2Model ----
(***************************************************************************)
(* Model of flask_app.py (BIOT 670i Dandelion Project): registration,      *)
(* login, upload ingest with EXIF extraction, listing and download.        *)
(*                                                                         *)
(* Conventions.                                                            *)
(*   - A Python str that the code transforms is a sequence of one-character*)
(*     strings; "" is << >>.  Strings the code only passes on are TLA+     *)
(*     strings.                                                            *)
(*   - A value that may be None is a sequence of length at most one:       *)
(*     << >> is None, <<v>> is v.                                          *)
(*   - A dict is a sequence of <<key, value>> pairs with distinct keys, in *)
(*     insertion order (Python keeps insertion order).                     *)
(*   - flash() queues its message in the session cookie that travels with  *)
(*     the response; it is modelled as the flash field of the response.    *)
(*     The variable session is the user_id key of that cookie.             *)
(***************************************************************************)
EXTENDS Integers, Sequences, FiniteSets, TLC

VARIABLES
    ALLOW_GLOBAL_DOWNLOADS, \* line 75, module-level policy flag
    Image,                  \* lines 25-29: TRUE iff Pillow was imported
    exifread,               \* lines 20-23: TRUE iff exifread was imported
    users,                  \* table users, rows in id order
    uploads,                \* table uploads, rows in id order
    dirs,                   \* owner directories under UPLOAD_ROOT
    files,                  \* files under UPLOAD_ROOT: <<owner dir, name>> -> content
    session,                \* the client's session cookie: user_id or None
    reqs,                   \* activations of do_upload, keyed by the uuid4 drawn
    probe                   \* result of a standalone extract_exif call, or None

vars == <<ALLOW_GLOBAL_DOWNLOADS, Image, exifread, users, uploads, dirs, files,
          session, reqs, probe>>

-----------------------------------------------------------------------------
(* Bounds of the model. *)

\* uuid4() draws from 1..MaxUuid; this also bounds the number of ingests.
MaxUuid == 2

UUIDs == 1 .. MaxUuid

-----------------------------------------------------------------------------
(* Python built-ins used by the code. *)

None == << >>

Some(v) == <<v>>

UpperCase == <<"A","B","C","D","E","F","G","H","I","J","K","L","M",
               "N","O","P","Q","R","S","T","U","V","W","X","Y","Z">>

LowerCase == <<"a","b","c","d","e","f","g","h","i","j","k","l","m",
               "n","o","p","q","r","s","t","u","v","w","x","y","z">>

Whitespace == {" ", "\t", "\n", "\r"}

Digits == <<"0","1","2","3","4","5","6","7","8","9">>

\* str.lower() on one character
lower_char(c) ==
    IF \E i \in 1..Len(UpperCase) : UpperCase[i] = c
    THEN LowerCase[CHOOSE i \in 1..Len(UpperCase) : UpperCase[i] = c]
    ELSE c

\* str.lower()
lower(s) == [i \in 1..Len(s) |-> lower_char(s[i])]

\* str.strip(): drop leading and trailing whitespace
strip(s) ==
    LET keep == {i \in 1..Len(s) : s[i] \notin Whitespace}
    IN  IF keep = {} THEN << >>
        ELSE LET lo == CHOOSE i \in keep : \A j \in keep : i <= j
                 hi == CHOOSE i \in keep : \A j \in keep : j <= i
             IN  SubSeq(s, lo, hi)

\* TRUE iff pat occurs in s at position i
starts_at(s, pat, i) ==
    /\ i + Len(pat) - 1 <= Len(s)
    /\ \A j \in 1..Len(pat) : s[i + j - 1] = pat[j]

\* str.replace(pat, ""): delete every non-overlapping occurrence, left to right
RECURSIVE remove_all(_, _)
remove_all(s, pat) ==
    IF s = << >> \/ pat = << >> THEN s
    ELSE IF starts_at(s, pat, 1)
         THEN remove_all(SubSeq(s, Len(pat) + 1, Len(s)), pat)
         ELSE <<s[1]>> \o remove_all(Tail(s), pat)

\* str(n) for a natural number n
RECURSIVE str_int(_)
str_int(n) ==
    IF n < 10 THEN <<Digits[n + 1]>>
    ELSE str_int(n \div 10) \o <<Digits[(n % 10) + 1]>>

\* dict[key] = value: replace in place, or append
dict_set(d, key, value) ==
    IF \E i \in 1..Len(d) : d[i][1] = key
    THEN [i \in 1..Len(d) |-> IF d[i][1] = key THEN <<key, value>> ELSE d[i]]
    ELSE Append(d, <<key, value>>)

dict_keys(d) == {d[i][1] : i \in 1..Len(d)}

\* os.path.splitext(p)[1]: from the last dot of the last path component,
\* unless only dots precede it in that component
splitext_ext(p) ==
    LET seps == {i \in 1..Len(p) : p[i] = "/"}
        dots == {i \in 1..Len(p) : p[i] = "."}
        sep  == IF seps = {} THEN 0 ELSE CHOOSE i \in seps : \A j \in seps : j <= i
        dot  == IF dots = {} THEN 0 ELSE CHOOSE i \in dots : \A j \in dots : j <= i
    IN  IF dot > sep /\ \E k \in (sep + 1)..(dot - 1) : p[k] # "."
        THEN SubSeq(p, dot, Len(p))
        ELSE << >>

-----------------------------------------------------------------------------
(* EXIF extraction, lines 35-60. *)

\* PIL.ExifTags.TAGS restricted to the tags the model feeds in
TAGS == << <<274, <<"O","r","i","e","n","t","a","t","i","o","n">>>>, <<37385, <<"F","l","a","s","h">>>> >>

\* ExifTags.TAGS.get(tag, tag), line 43.  A raw tag id that has no name stays
\* the key; it is written as its decimal digits (json.dumps writes it so too).
tags_get(tag) ==
    IF \E i \in 1..Len(TAGS) : TAGS[i][1] = tag
    THEN TAGS[CHOOSE i \in 1..Len(TAGS) : TAGS[i][1] = tag][2]
    ELSE str_int(tag)

\* What one strategy yields on a given file: the entries its loop gets through,
\* and whether an exception then ends the try block (at open/getexif/process_file
\* when no entry was reached, inside the loop otherwise).
PillowOutcomes ==
    [tags : { << >>,
              << <<274, 1>> >>,
              << <<274, 1>>, <<59932, 7>> >> },
     raises : BOOLEAN]

ExifreadOutcomes ==
    [tags : { << >>,
              << <<<<"I","m","a","g","e"," ","O","r","i","e","n","t","a","t","i","o","n">>, 6>> >>,
              << <<<<"E","X","I","F"," ","F","l","a","s","h">>, 16>>, <<<<"I","m","a","g","e"," ","O","r","i","e","n","t","a","t","i","o","n">>, 6>> >> },
     raises : BOOLEAN]

\* lines 42-44: the loop over img.getexif().items()
RECURSIVE pillow_loop(_, _)
pillow_loop(metadata, tags) ==
    IF tags = << >> THEN metadata
    ELSE pillow_loop(dict_set(metadata, tags_get(tags[1][1]), str_int(tags[1][2])),
                     Tail(tags))

\* lines 38-48: the primary strategy.  returned is TRUE iff line 46 returns;
\* error is TRUE iff an exception leaves the try block uncaught (line 47
\* catches Exception, so none does).
pillow_phase(image_lib, p) ==
    IF ~image_lib
    THEN [metadata |-> << >>, returned |-> FALSE, error |-> FALSE]
    ELSE LET metadata == pillow_loop(<< >>, p.tags)
         IN  IF p.raises
             THEN [metadata |-> metadata, returned |-> FALSE, error |-> FALSE]
             ELSE [metadata |-> metadata, returned |-> metadata # << >>,
                   error |-> FALSE]

\* line 56
clean_tag(tag) == remove_all(remove_all(tag, <<"E","X","I","F"," ">>), <<"I","m","a","g","e"," ">>)

\* lines 55-57: the loop over tags.items()
RECURSIVE exifread_loop(_, _)
exifread_loop(metadata, tags) ==
    IF tags = << >> THEN metadata
    ELSE exifread_loop(dict_set(metadata, clean_tag(tags[1][1]), str_int(tags[1][2])),
                       Tail(tags))

\* exifread_phase without the try block of lines 52-59
exifread_phase_uncaught(metadata, exifread_lib, e) ==
    IF exifread_lib
    THEN [metadata |-> exifread_loop(metadata, e.tags), error |-> e.raises]
    ELSE [metadata |-> metadata, error |-> FALSE]

\* lines 51-59: the fallback strategy, on the metadata the primary left
\* behind.  Line 58 catches Exception, so error is FALSE.
exifread_phase(metadata, exifread_lib, e) ==
    IF exifread_lib
    THEN [metadata |-> exifread_loop(metadata, e.tags), error |-> FALSE]
    ELSE [metadata |-> metadata, error |-> FALSE]

\* lines 35-60 with the path taken: the dict after the primary strategy
\* (primary), whether the fallback block of lines 52-59 ran (fallback), the
\* dict returned (metadata), and whether an exception reaches the caller
\* instead (error).
extract_exif(image_lib, exifread_lib, data) ==
    LET first  == pillow_phase(image_lib, data.pillow)
        second == exifread_phase(first.metadata, exifread_lib, data.exifread)
    IN  IF first.returned \/ first.error
        THEN [primary |-> first.metadata, fallback |-> FALSE,
              metadata |-> first.metadata, error |-> first.error]
        ELSE [primary |-> first.metadata, fallback |-> exifread_lib,
              metadata |-> second.metadata, error |-> second.error]

\* json.dumps of a str: quotes, with quote and backslash escaped
RECURSIVE json_escape(_)
json_escape(s) ==
    IF s = << >> THEN << >>
    ELSE (IF s[1] \in {"\"", "\\"} THEN <<"\\", s[1]>> ELSE <<s[1]>>)
         \o json_escape(Tail(s))

json_str(s) == <<"\"">> \o json_escape(s) \o <<"\"">>

RECURSIVE json_items(_)
json_items(d) ==
    IF d = << >> THEN << >>
    ELSE json_str(d[1][1]) \o <<":", " ">> \o json_str(d[1][2])
         \o (IF Len(d) > 1 THEN <<",", " ">> ELSE << >>) \o json_items(Tail(d))

\* json.dumps(d, ensure_ascii=False) of a str -> str dict
json_dumps(d) == <<"{">> \o json_items(d) \o <<"}">>

\* line 249
exif_json_of(exif_data) ==
    IF exif_data # << >> THEN json_dumps(exif_data) ELSE <<"{", "}">>

-----------------------------------------------------------------------------
(* Content fingerprint, lines 251-255. *)

HexDigits == <<"0","1","2","3","4","5","6","7","8","9","a","b","c","d","e","f">>

\* hashlib.md5(bytes).hexdigest(): a deterministic digest of the bytes, here
\* one byte wide, written as two lowercase hex digits
RECURSIVE digest(_, _)
digest(h, bytes) ==
    IF bytes = << >> THEN h
    ELSE digest((h * 31 + bytes[1] + 7) % 256, Tail(bytes))

md5_hexdigest(bytes) ==
    LET h == digest(0, bytes)
    IN  <<HexDigits[(h \div 16) + 1], HexDigits[(h % 16) + 1]>>

\* mimetypes.types_map restricted to the extensions the model feeds in
types_map == << <<<<".","p","n","g">>, "image/png">>, <<<<".","j","p","g">>, "image/jpeg">> >>

\* mimetypes.guess_type(path)[0]: by the extension of the path, None if unknown
guess_type(name) ==
    LET ext == lower(splitext_ext(name))
    IN  IF \E i \in 1..Len(types_map) : types_map[i][1] = ext
        THEN Some(types_map[CHOOSE i \in 1..Len(types_map) : types_map[i][1] = ext][2])
        ELSE None

\* line 252
mime_type_of(name) ==
    IF guess_type(name) # None THEN guess_type(name)[1]
    ELSE "application/octet-stream"

-----------------------------------------------------------------------------
(* Passwords, werkzeug.security. *)

char_code(c) ==
    IF \E i \in 1..Len(LowerCase) : LowerCase[i] = c
    THEN CHOOSE i \in 1..Len(LowerCase) : LowerCase[i] = c
    ELSE 0

RECURSIVE pw_digest(_, _)
pw_digest(h, password) ==
    IF password = << >> THEN h
    ELSE pw_digest((h * 33 + char_code(password[1])) % 1009, Tail(password))

\* generate_password_hash(password) with the salt it drew: "salt$digest"
generate_password_hash(password, salt) == <<salt, pw_digest(salt, password)>>

\* check_password_hash(pwhash, password): rehash with the stored salt
check_password_hash(pwhash, password) ==
    pw_digest(pwhash[1], password) = pwhash[2]

-----------------------------------------------------------------------------
(* Requests and responses. *)

\* What the client may send as request.files["file"]: the FileStorage's
\* filename and the content of its stream.  A content is its bytes together
\* with what each EXIF library makes of them.
Contents == [bytes : {<<255, 216, 9>>}, pillow : PillowOutcomes,
             exifread : ExifreadOutcomes]

\* a JPEG whose EXIF directory both libraries read
JpegExif ==
    [bytes |-> <<255, 216, 1>>,
     pillow |-> [tags |-> << <<274, 1>> >>, raises |-> FALSE],
     exifread |-> [tags |-> << <<<<"I","m","a","g","e"," ","O","r","i","e","n","t","a","t","i","o","n">>, 6>> >>, raises |-> FALSE]]

\* a JPEG with a damaged EXIF directory: Pillow decodes one tag and raises on
\* the next, exifread reads two tags and raises on the third
JpegDamaged ==
    [bytes |-> <<255, 216, 2, 0>>,
     pillow |-> [tags |-> << <<274, 1>> >>, raises |-> TRUE],
     exifread |-> [tags |-> << <<<<"E","X","I","F"," ","F","l","a","s","h">>, 16>>, <<<<"I","m","a","g","e"," ","O","r","i","e","n","t","a","t","i","o","n">>, 6>> >>,
                   raises |-> TRUE]]

\* a JPEG without EXIF: Pillow yields nothing, exifread raises at once
JpegPlain ==
    [bytes |-> <<255, 216>>,
     pillow |-> [tags |-> << >>, raises |-> FALSE],
     exifread |-> [tags |-> << >>, raises |-> TRUE]]

\* not an image: Image.open raises, exifread finds nothing
TextFile ==
    [bytes |-> <<104, 105>>,
     pillow |-> [tags |-> << >>, raises |-> TRUE],
     exifread |-> [tags |-> << >>, raises |-> FALSE]]

\* what is on disk when f.save fails part-way
truncated(data) ==
    [bytes |-> SubSeq(data.bytes, 1, Len(data.bytes) - 1),
     pillow |-> [tags |-> << >>, raises |-> TRUE],
     exifread |-> [tags |-> << >>, raises |-> TRUE]]

\* datetime.datetime.now(), in tenths of a second
Clock == {100, 109}

\* isoformat(timespec="seconds"): whole seconds
isoformat_seconds(t) == t \div 10

\* random.choice(dandelions), lines 290-296
Banners == {"loremflickr/dandelion", "unsplash/dandelion",
            "loremflickr/flower,dandelion", "picsum/blur"}

\* redirect(url_for(to)), after flash(message) if message is not ""
redirect(to, message) ==
    [kind |-> "redirect", to |-> to, flash |-> message, rows |-> << >>,
     banner |-> "", sent |-> None]

\* render(name, **ctx), lines 84-87
render(name, rows, banner) ==
    [kind |-> "page", to |-> name, flash |-> "", rows |-> rows,
     banner |-> banner, sent |-> None]

\* send_from_directory(owner_dir, stored_name, as_attachment=True): the file
\* at that path, or 404 when there is none
send_from_directory(owner_dir, stored_name) ==
    IF <<owner_dir, stored_name>> \in DOMAIN files
    THEN [kind |-> "file", to |-> "attachment", flash |-> "", rows |-> << >>,
          banner |-> "",
          sent |-> Some(<<owner_dir, stored_name, files[<<owner_dir, stored_name>>]>>)]
    ELSE [kind |-> "error", to |-> "404", flash |-> "", rows |-> << >>,
          banner |-> "", sent |-> None]

-----------------------------------------------------------------------------
(* Database access. *)

\* SELECT ... FROM users WHERE id=?  (fetchone)
user_by_id(id) ==
    LET hit == {i \in 1..Len(users) : users[i].id = id}
    IN  IF hit = {} THEN None ELSE Some(users[CHOOSE i \in hit : TRUE])

\* SELECT id, password_hash FROM users WHERE email=?  (fetchone)
user_by_email(email) ==
    LET hit == {i \in 1..Len(users) : users[i].email = email}
    IN  IF hit = {} THEN None ELSE Some(users[CHOOSE i \in hit : TRUE])

\* SELECT ... FROM uploads WHERE id=?  (fetchone)
upload_by_id(file_id) ==
    LET hit == {i \in 1..Len(uploads) : uploads[i].id = file_id}
    IN  IF hit = {} THEN None ELSE Some(uploads[CHOOSE i \in hit : TRUE])

\* SELECT ... FROM uploads WHERE user_id = ? ORDER BY id DESC
RECURSIVE uploads_of(_, _)
uploads_of(user_id, n) ==
    IF n = 0 THEN << >>
    ELSE (IF uploads[n].user_id = user_id THEN <<uploads[n]>> ELSE << >>)
         \o uploads_of(user_id, n - 1)

\* g.user as load_logged_in_user leaves it before each request
load_logged_in_user ==
    IF session = None THEN None ELSE user_by_id(session[1])

-----------------------------------------------------------------------------
(* Handlers that only read: the response is a function of the state the      *)
(* request finds, and nothing changes.                                       *)

\* lines 144-148
home_response ==
    IF load_logged_in_user # None THEN redirect("files", "")
    ELSE redirect("login", "")

home == UNCHANGED vars

\* lines 153-155
register_response == render("register.html", << >>, "")

register == UNCHANGED vars

\* lines 187-189
login_response == render("login.html", << >>, "")

login == UNCHANGED vars

\* lines 217-221
upload_response ==
    IF load_logged_in_user = None THEN redirect("login", "")
    ELSE render("upload.html", << >>, "")

upload == UNCHANGED vars

\* lines 274-298
files_response(banner) ==
    IF load_logged_in_user = None THEN redirect("login", "")
    ELSE render("files.html",
                uploads_of(load_logged_in_user[1].id, Len(uploads)), banner)

files_page == UNCHANGED vars

\* download_response with the policy flag read the wrong way round
download_response_inverted(file_id) ==
    LET user == load_logged_in_user
        row  == upload_by_id(file_id)
    IN  IF user = None THEN redirect("login", "")
        ELSE IF row = None THEN redirect("files", "File not found.")
        ELSE IF ALLOW_GLOBAL_DOWNLOADS /\ row[1].user_id # user[1].id
        THEN redirect("files", "Unauthorized download attempt.")
        ELSE send_from_directory(row[1].user_id, row[1].stored_name)

\* lines 303-322
download_response(file_id) ==
    LET user == load_logged_in_user
        row  == upload_by_id(file_id)
    IN  IF user = None THEN redirect("login", "")
        ELSE IF row = None THEN redirect("files", "File not found.")
        ELSE IF ~ALLOW_GLOBAL_DOWNLOADS /\ row[1].user_id # user[1].id
        THEN redirect("files", "Unauthorized download attempt.")
        ELSE send_from_directory(row[1].user_id, row[1].stored_name)

download(file_id) == UNCHANGED vars

-----------------------------------------------------------------------------
(* Registration, login, logout. *)

\* lines 157-182
register_post_response(email_in, full_name_in, password) ==
    LET email == lower(strip(email_in))
    IN  IF email = << >> \/ password = << >>
        THEN redirect("register", "Email and password required.")
        ELSE IF user_by_email(email) # None
        THEN redirect("register", "That email is already registered.")
        ELSE redirect("login", "Account created successfully.")

\* salt is the salt generate_password_hash draws (line 167)
register_post(email_in, full_name_in, password, salt) ==
    LET email     == lower(strip(email_in))
        full_name == strip(full_name_in)
    IN  IF email = << >> \/ password = << >>
        THEN UNCHANGED vars
        ELSE IF user_by_email(email) # None
        THEN UNCHANGED vars         \* sqlite3.IntegrityError: email is UNIQUE
        ELSE /\ users' = Append(users,
                       [id |-> Len(users) + 1, email |-> email,
                        full_name |-> full_name,
                        password_hash |-> generate_password_hash(password, salt)])
             /\ UNCHANGED <<ALLOW_GLOBAL_DOWNLOADS, Image, exifread, uploads,
                            dirs, files, session, reqs, probe>>

\* login_accepts without the password check
login_accepts_any_password(email_in, password) ==
    user_by_email(lower(strip(email_in))) # None

\* line 200: the request is let in
login_accepts(email_in, password) ==
    LET row == user_by_email(lower(strip(email_in)))
    IN  ~(row = None \/ ~check_password_hash(row[1].password_hash, password))

\* lines 191-205
login_post_response(email_in, password) ==
    IF login_accepts(email_in, password) THEN redirect("files", "")
    ELSE redirect("login", "Invalid email or password.")

login_post(email_in, password) ==
    IF login_accepts(email_in, password)
    THEN /\ session' = Some(user_by_email(lower(strip(email_in)))[1].id)
         /\ UNCHANGED <<ALLOW_GLOBAL_DOWNLOADS, Image, exifread, users, uploads,
                        dirs, files, reqs, probe>>
    ELSE UNCHANGED vars

\* lines 208-212
logout_response == redirect("login", "Logged out.")

logout ==
    /\ session' = None
    /\ UNCHANGED <<ALLOW_GLOBAL_DOWNLOADS, Image, exifread, users, uploads,
                   dirs, files, reqs, probe>>

-----------------------------------------------------------------------------
(* Upload ingest, lines 224-269.  One activation of do_upload runs through   *)
(* the statements below; activations of concurrent requests interleave at    *)
(* statement boundaries.  An exception that no handler catches ends the      *)
(* activation (pc = "error", a 500 response) where it is raised.             *)

\* uuid4 that may return an identifier again
uuid4_repeats == UUIDs

\* uuid.uuid4(): an identifier no earlier call returned.  An activation is
\* keyed by the identifier it drew.
uuid4 == UUIDs \ DOMAIN reqs

\* str(uuid)
uuid_str(u) == str_int(u)

\* the statements with the fingerprint before the extraction
statement_after_swapped(pc) ==
    CASE pc = "naming"       -> "makedirs"
      [] pc = "makedirs"     -> "save"
      [] pc = "save"         -> "fingerprint"
      [] pc = "fingerprint"  -> "extract_exif"
      [] pc = "extract_exif" -> "insert"
      [] pc = "insert"       -> "done"

\* the statements of lines 243-266 in program order
statement_after(pc) ==
    CASE pc = "naming"       -> "makedirs"
      [] pc = "makedirs"     -> "save"
      [] pc = "save"         -> "extract_exif"
      [] pc = "extract_exif" -> "fingerprint"
      [] pc = "fingerprint"  -> "insert"
      [] pc = "insert"       -> "done"

\* do_upload_rejects without the test of the filename
do_upload_rejects_unnamed(f) ==
    \/ load_logged_in_user = None
    \/ f = None

\* lines 226-235: the requests do_upload turns away
do_upload_rejects(f) ==
    \/ load_logged_in_user = None
    \/ f = None
    \/ f[1].filename = << >>

\* lines 224-235, and 269 for the request that was let in and ran through
do_upload_response(f) ==
    IF load_logged_in_user = None THEN redirect("login", "")
    ELSE IF f = None \/ f[1].filename = << >>
    THEN redirect("upload", "Please select a file.")
    ELSE redirect("files", "File uploaded successfully.")

\* full_path with the client's filename in place of the stored name
full_path_original(r) == <<r.user_id, r.original>>

\* full_path of an activation, lines 242-244
full_path(r) == <<r.user_id, r.stored>>

\* lines 225-242: the gate, the validation, and the naming
do_upload(f, title_in, notes_in) ==
    IF do_upload_rejects(f)
    THEN UNCHANGED vars
    ELSE /\ \E u \in uuid4 :
              reqs' = (u :>
                  [pc         |-> statement_after("naming"),
                   title      |-> strip(title_in),
                   notes      |-> strip(notes_in),
                   original   |-> f[1].filename,
                   stored     |-> uuid_str(u) \o lower(splitext_ext(f[1].filename)),
                   user_id    |-> load_logged_in_user[1].id,
                   stream     |-> f[1].stream,
                   exif_data  |-> None,
                   exif_json  |-> None,
                   size_bytes |-> None,
                   mime_type  |-> None,
                   md5sum     |-> None,
                   raised_at  |-> ""]) @@ reqs
         /\ UNCHANGED <<ALLOW_GLOBAL_DOWNLOADS, Image, exifread, users, uploads,
                        dirs, files, session, probe>>

\* the activation u assigns the locals in changed (pc is the next statement)
goto(u, changed) ==
    reqs' = [reqs EXCEPT ![u] = changed @@ reqs[u]]

\* the activation u ends with an uncaught exception
raise(u) == goto(u, [pc |-> "error", raised_at |-> reqs[u].pc])

\* line 243: os.makedirs(user_dir, exist_ok=True)
makedirs(u) ==
    /\ u \in DOMAIN reqs /\ reqs[u].pc = "makedirs"
    /\ \/ /\ dirs' = dirs \cup {reqs[u].user_id}
          /\ goto(u, [pc |-> statement_after("makedirs")])
       \/ /\ raise(u)
          /\ UNCHANGED dirs
    /\ UNCHANGED <<ALLOW_GLOBAL_DOWNLOADS, Image, exifread, users, uploads,
                   files, session, probe>>

\* save that notes a failed write and carries on
save_swallows(u) ==
    /\ u \in DOMAIN reqs /\ reqs[u].pc = "save"
    /\ LET path == full_path(reqs[u])
       IN  \/ /\ reqs[u].user_id \in dirs
              /\ files' = (path :> reqs[u].stream) @@ files
              /\ goto(u, [pc |-> statement_after("save")])
           \/ /\ reqs[u].user_id \in dirs
              /\ files' = (path :> truncated(reqs[u].stream)) @@ files
              /\ goto(u, [pc |-> statement_after("save"), raised_at |-> "save"])
    /\ UNCHANGED <<ALLOW_GLOBAL_DOWNLOADS, Image, exifread, users, uploads,
                   dirs, session, probe>>

\* line 245: f.save(full_path) creates or truncates the file and copies the
\* stream; an I/O failure leaves no file, or part of it
save(u) ==
    /\ u \in DOMAIN reqs /\ reqs[u].pc = "save"
    /\ LET path == full_path(reqs[u])
       IN  \/ /\ reqs[u].user_id \in dirs
              /\ files' = (path :> reqs[u].stream) @@ files
              /\ goto(u, [pc |-> statement_after("save")])
           \/ /\ raise(u)
              /\ \/ UNCHANGED files
                 \/ /\ reqs[u].user_id \in dirs
                    /\ files' = (path :> truncated(reqs[u].stream)) @@ files
    /\ UNCHANGED <<ALLOW_GLOBAL_DOWNLOADS, Image, exifread, users, uploads,
                   dirs, session, probe>>

\* what Image.open and open(path, "rb") find at path: the file, or nothing to
\* open (both raise)
read_file(path) ==
    IF path \in DOMAIN files THEN files[path]
    ELSE [bytes |-> << >>,
          pillow |-> [tags |-> << >>, raises |-> TRUE],
          exifread |-> [tags |-> << >>, raises |-> TRUE]]

\* lines 248-249
exif_step(u) ==
    /\ u \in DOMAIN reqs /\ reqs[u].pc = "extract_exif"
    /\ LET run == extract_exif(Image, exifread, read_file(full_path(reqs[u])))
       IN  IF run.error THEN raise(u)
           ELSE goto(u,
                     [pc |-> statement_after("extract_exif"), exif_data |-> Some(run.metadata),
                      exif_json |-> Some(exif_json_of(run.metadata))])
    /\ UNCHANGED <<ALLOW_GLOBAL_DOWNLOADS, Image, exifread, users, uploads,
                   dirs, files, session, probe>>

\* lines 251-255, the content fingerprint: os.path.getsize, guess_type, and
\* the MD5 of the whole file.  getsize, open and read raise OSError when the
\* file cannot be examined or read; guess_type does not raise.
fingerprint_step(u) ==
    /\ u \in DOMAIN reqs /\ reqs[u].pc = "fingerprint"
    /\ \/ /\ full_path(reqs[u]) \in DOMAIN files
          /\ goto(u,
                  [pc |-> statement_after("fingerprint"),
                   size_bytes |-> Some(Len(files[full_path(reqs[u])].bytes)),
                   mime_type  |-> Some(mime_type_of(reqs[u].stored)),
                   md5sum     |-> Some(md5_hexdigest(files[full_path(reqs[u])].bytes))])
       \/ raise(u)
    /\ UNCHANGED <<ALLOW_GLOBAL_DOWNLOADS, Image, exifread, users, uploads,
                   dirs, files, session, probe>>

\* lines 257-269: the timestamp, then INSERT and commit; sqlite3 raises when
\* the database cannot be written
insert_step(u) ==
    /\ u \in DOMAIN reqs /\ reqs[u].pc = "insert"
    /\ \/ /\ \E now \in Clock :
                uploads' = Append(uploads,
                    [id            |-> Len(uploads) + 1,
                     user_id       |-> reqs[u].user_id,
                     title         |-> reqs[u].title,
                     notes         |-> reqs[u].notes,
                     original_name |-> reqs[u].original,
                     stored_name   |-> reqs[u].stored,
                     mime_type     |-> reqs[u].mime_type[1],
                     size_bytes    |-> reqs[u].size_bytes[1],
                     md5           |-> reqs[u].md5sum[1],
                     exif_json     |-> reqs[u].exif_json[1],
                     created_at    |-> isoformat_seconds(now)])
          /\ goto(u, [pc |-> statement_after("insert")])
       \/ /\ raise(u)
          /\ UNCHANGED uploads
    /\ UNCHANGED <<ALLOW_GLOBAL_DOWNLOADS, Image, exifread, users, dirs, files,
                   session, probe>>

-----------------------------------------------------------------------------
(* A standalone call of extract_exif(file_path) on a file of any content.    *)

extract_exif_call(data) ==
    /\ probe = None
    /\ probe' = Some([data |-> data, run |-> extract_exif(Image, exifread, data)])
    /\ UNCHANGED <<ALLOW_GLOBAL_DOWNLOADS, Image, exifread, users, uploads, dirs,
                   files, session, reqs>>

-----------------------------------------------------------------------------
(* Inputs of the requests. *)

\* the form of POST /register: email, full_name, password
RegisterForms ==
    { <<<<" ","A"," ">>, <<" ","N">>, <<"p">>>>,
      <<<<"B">>, <<>>, <<"q">>>>,
      <<<<"a">>, <<"N">>, <<>>>>,
      <<<<>>, <<"N">>, <<"p">>>> }

\* the form of POST /login: email, password
LoginForms ==
    { <<<<" ","A"," ">>, <<"p">>>>, <<<<"a">>, <<"q">>>>,
      <<<<"b">>, <<"q">>>>,  <<<<"B">>, <<"p">>>>,
      <<<<"c">>, <<"p">>>>,  <<<<>>, <<>>>> }

\* request.form["title"], request.form["notes"]
Titles == { <<" ","t"," ">> }

Notes == { <<>> }

\* request.files.get("file")
NoFile == None

UnnamedFile == Some([filename |-> <<>>, stream |-> JpegExif])

PngUpload == Some([filename |-> <<"a",".","P","N","G">>, stream |-> JpegExif])

DamagedUpload == Some([filename |-> <<"b",".","J","P","G">>, stream |-> JpegDamaged])

RawUpload == Some([filename |-> <<"r","a","w">>, stream |-> TextFile])

\* <int:file_id> of /download/<int:file_id>
FileIds == 1 .. (MaxUuid + 1)

-----------------------------------------------------------------------------
(* The application. *)

\* The state when the module has been imported against a new warehouse.db
\* and an empty uploads directory (init_db, line 329; makedirs, line 73).
Fresh ==
    /\ users = << >>
    /\ uploads = << >>
    /\ dirs = {}
    /\ files = << >>
    /\ session = None
    /\ reqs = << >>
    /\ probe = None

\* The requests, with the forms, files and salts the clients send and draw.
Requests(register_forms, salts, login_forms, upload_files) ==
    \/ home
    \/ register
    \/ login
    \/ upload
    \/ files_page
    \/ \E file_id \in FileIds : download(file_id)
    \/ \E form \in register_forms, salt \in salts :
           register_post(form[1], form[2], form[3], salt)
    \/ \E form \in login_forms : login_post(form[1], form[2])
    \/ logout
    \/ \E f \in upload_files, t \in Titles, n \in Notes : do_upload(f, t, n)
    \/ \E u \in UUIDs : makedirs(u)
    \/ \E u \in UUIDs : save(u)
    \/ \E u \in UUIDs : exif_step(u)
    \/ \E u \in UUIDs : fingerprint_step(u)
    \/ \E u \in UUIDs : insert_step(u)

\* Two users, either download policy, both EXIF libraries installed.  Line 75
\* sets ALLOW_GLOBAL_DOWNLOADS = True and is the one place to change the
\* policy, so both settings are deployments of this program.
Init ==
    /\ ALLOW_GLOBAL_DOWNLOADS \in BOOLEAN
    /\ Image = TRUE
    /\ exifread = TRUE
    /\ Fresh

Next == Requests(RegisterForms, {1}, LoginForms, {NoFile, UnnamedFile, PngUpload})

Spec == Init /\ [][Next]_vars

\* One user, the policy of line 75, and every combination of installed EXIF
\* libraries (lines 19-29), with files the libraries fail on.
InitIngest ==
    /\ ALLOW_GLOBAL_DOWNLOADS = TRUE
    /\ Image \in BOOLEAN
    /\ exifread \in BOOLEAN
    /\ Fresh

NextIngest ==
    Requests({<<<<" ","A"," ">>, <<" ","N">>, <<"p">>>>}, {1, 2}, {<<<<"a">>, <<"p">>>>, <<<<"a">>, <<"q">>>>},
             {NoFile, DamagedUpload, RawUpload})

SpecIngest == InitIngest /\ [][NextIngest]_vars

\* extract_exif as a utility, on every content and library configuration
InitExif ==
    /\ ALLOW_GLOBAL_DOWNLOADS = TRUE
    /\ Image \in BOOLEAN
    /\ exifread \in BOOLEAN
    /\ Fresh

NextExif == \E data \in Contents : extract_exif_call(data)

SpecExif == InitExif /\ [][NextExif]_vars

-----------------------------------------------------------------------------
(* Properties. *)

\* the response that serves the file of the upload record row
serves(response, row) ==
    /\ response.kind = "file"
    /\ response.sent # None
    /\ response.sent[1][1] = row.user_id
    /\ response.sent[1][2] = row.stored_name
    /\ Len(response.sent[1][3].bytes) = row.size_bytes

\* C1: a download request on an existing upload is turned away to the login
\* page, with no file served, when the session holds no user; is served the
\* upload's file whoever owns it when global downloads are enabled; and
\* otherwise is served the file exactly when the requesting user owns the
\* upload, every other user being turned away as unauthorized.
C1_DownloadPolicy ==
    \A i \in 1..Len(uploads) :
        LET row      == uploads[i]
            response == download_response(row.id)
        IN  IF session = None
            THEN response = redirect("login", "")
            ELSE IF ALLOW_GLOBAL_DOWNLOADS
            THEN serves(response, row)
            ELSE IF session[1] = row.user_id
            THEN serves(response, row)
            ELSE response = redirect("files", "Unauthorized download attempt.")

\* C1 witness: with global downloads disabled, a logged-in user asks for an
\* upload that another user owns and is turned away.
C1_Witness ==
    /\ ~ALLOW_GLOBAL_DOWNLOADS
    /\ session # None
    /\ \E i \in 1..Len(uploads) :
          /\ uploads[i].user_id # session[1]
          /\ download_response(uploads[i].id).kind = "redirect"
          /\ download_response(uploads[i].id).sent = None

\* the file of an upload record, at <UPLOAD_ROOT>/<owner_id>/<stored_name>
file_of(row) == <<row.user_id, row.stored_name>>

\* C2: every upload record has its file on disk at
\* <UPLOAD_ROOT>/<user_id>/<stored_name>, written in full (the record's size
\* and MD5 are those of the file), whatever requests failed at whatever step.
C2_RecordHasFile ==
    \A i \in 1..Len(uploads) :
        /\ file_of(uploads[i]) \in DOMAIN files
        /\ Len(files[file_of(uploads[i])].bytes) = uploads[i].size_bytes
        /\ md5_hexdigest(files[file_of(uploads[i])].bytes) = uploads[i].md5

\* C2 witness: an upload record exists beside a failed request that left a
\* file without a record.
C2_Witness ==
    /\ Len(uploads) > 0
    /\ \E u \in DOMAIN reqs :
          /\ reqs[u].pc = "error"
          /\ full_path(reqs[u]) \in DOMAIN files
          /\ \A i \in 1..Len(uploads) : uploads[i].stored_name # reqs[u].stored

\* C6: a request whose save step failed has no upload record.
C6_SaveFailureNoRecord ==
    \A u \in DOMAIN reqs :
        reqs[u].raised_at = "save" =>
            /\ reqs[u].pc = "error"
            /\ \A i \in 1..Len(uploads) : uploads[i].stored_name # reqs[u].stored

\* C6 witness: a save step has failed part-way, with another upload recorded.
C6_Witness ==
    \E u \in DOMAIN reqs :
        /\ reqs[u].raised_at = "save"
        /\ full_path(reqs[u]) \in DOMAIN files
        /\ Len(uploads) > 0

\* the activations that ran through
done == {u \in DOMAIN reqs : reqs[u].pc = "done"}

\* the activations whose save step has written the file
saved == {u \in DOMAIN reqs :
             reqs[u].pc \in {"extract_exif", "fingerprint", "insert", "done"}}

\* C8: with fresh identifiers, whatever the interleaving of concurrent
\* ingests: stored names are pairwise distinct, among activations and among
\* records; the file an ingest saved is still its own stream; and every
\* ingest that ran through has exactly one file under its stored name and
\* exactly one record, which names its owner and its file.
C8_ConcurrentIngests ==
    /\ \A u, v \in DOMAIN reqs : u # v => reqs[u].stored # reqs[v].stored
    /\ \A i, j \in 1..Len(uploads) :
          i # j => uploads[i].stored_name # uploads[j].stored_name
    /\ \A u \in saved :
          /\ full_path(reqs[u]) \in DOMAIN files
          /\ files[full_path(reqs[u])] = reqs[u].stream
    /\ Len(uploads) = Cardinality(done)
    /\ \A u \in done :
          /\ Cardinality({p \in DOMAIN files : p[2] = reqs[u].stored}) = 1
          /\ Cardinality({i \in 1..Len(uploads) :
                             uploads[i].stored_name = reqs[u].stored}) = 1
          /\ \E i \in 1..Len(uploads) :
                /\ uploads[i].stored_name = reqs[u].stored
                /\ uploads[i].user_id = reqs[u].user_id

\* C8 witness: two ingests of different owners have both run through.
C8_Witness ==
    \E u, v \in done :
        /\ u # v
        /\ reqs[u].user_id # reqs[v].user_id

credentials_of(form, row) ==
    /\ row.email = lower(strip(form[1]))
    /\ row.password_hash[2] = pw_digest(row.password_hash[1], form[2])

\* the responses of the handlers behind the login gate
gated_responses ==
    {upload_response} \cup {files_response(b) : b \in Banners}
    \cup {download_response(id) : id \in FileIds}
    \cup {do_upload_response(f) : f \in {NoFile, UnnamedFile, PngUpload}}

C3_FallbackOnlyAfterEmptyPrimary ==
    probe # None =>
        (probe[1].run.primary # << >> =>
            /\ ~probe[1].run.fallback
            /\ probe[1].run.metadata = probe[1].run.primary)

\* a strategy is unavailable or fails on the content
pillow_fails(data) == ~Image \/ data.pillow.raises

exifread_fails(data) == ~exifread \/ data.exifread.raises

\* the activations past the extraction step
extracted == {u \in DOMAIN reqs : reqs[u].pc \in {"fingerprint", "insert", "done"}}

\* the keys the two strategies can have stored from the content
stored_keys(data) ==
    (IF Image THEN {tags_get(data.pillow.tags[i][1]) : i \in 1..Len(data.pillow.tags)}
     ELSE {})
    \cup
    (IF exifread
     THEN {clean_tag(data.exifread.tags[i][1]) : i \in 1..Len(data.exifread.tags)}
     ELSE {})

\* C4 (as claimed): extraction never ends an ingest, and whenever both
\* strategies are unavailable or fail the mapping is empty and the metadata
\* is serialized as "{}".
C4_BothFailEmpty ==
    \A u \in DOMAIN reqs :
        /\ reqs[u].raised_at # "extract_exif"
        /\ u \in extracted =>
              LET data == files[full_path(reqs[u])]
              IN  pillow_fails(data) /\ exifread_fails(data) =>
                      /\ reqs[u].exif_data = Some(<< >>)
                      /\ reqs[u].exif_json = Some(<<"{", "}">>)

\* C4 (amended): extraction never ends an ingest: past the extraction step the
\* activation holds a mapping and its serialization, which is "{}" exactly
\* when the mapping is empty, and the record inserted carries it.  Whenever
\* both strategies are unavailable or fail, the mapping holds only entries
\* they stored before failing, and is empty when they stored none.
C4_ExtractionNeverAborts ==
    \A u \in DOMAIN reqs :
        /\ reqs[u].raised_at # "extract_exif"
        /\ u \in extracted =>
              LET data == files[full_path(reqs[u])]
              IN  /\ reqs[u].exif_data # None /\ reqs[u].exif_json # None
                  /\ reqs[u].exif_data[1] = << >>
                         <=> reqs[u].exif_json[1] = <<"{", "}">>
                  /\ pillow_fails(data) /\ exifread_fails(data) =>
                         /\ dict_keys(reqs[u].exif_data[1]) \subseteq stored_keys(data)
                         /\ stored_keys(data) = {} => reqs[u].exif_data[1] = << >>
        /\ reqs[u].pc = "done" =>
              \E i \in 1..Len(uploads) :
                  /\ uploads[i].stored_name = reqs[u].stored
                  /\ uploads[i].exif_json = reqs[u].exif_json[1]

\* C4 witness: an ingest ran through with both strategies unavailable or
\* failing, and its record carries "{}".
C4_Witness ==
    \E u \in DOMAIN reqs :
        /\ reqs[u].pc = "done"
        /\ pillow_fails(files[full_path(reqs[u])])
        /\ exifread_fails(files[full_path(reqs[u])])
        /\ \E i \in 1..Len(uploads) :
              /\ uploads[i].stored_name = reqs[u].stored
              /\ uploads[i].exif_json = <<"{", "}">>

\* C5 (as claimed): the fingerprint step never ends an ingest, and the MIME
\* type is application/octet-stream when the extension is not known.
C5_FingerprintAbsorbed ==
    \A u \in DOMAIN reqs :
        /\ reqs[u].raised_at # "fingerprint"
        /\ reqs[u].mime_type # None /\ guess_type(reqs[u].stored) = None =>
              reqs[u].mime_type = Some("application/octet-stream")

\* the file of the activation is on disk in full
persisted(u) ==
    /\ full_path(reqs[u]) \in DOMAIN files
    /\ files[full_path(reqs[u])] = reqs[u].stream

\* the record of the activation is in the table
recorded(u) ==
    \E i \in 1..Len(uploads) : uploads[i].stored_name = reqs[u].stored

\* The order of the steps that both statements of C9 share: validation before
\* naming, the owner directory before the file, the file in full before
\* extraction and fingerprint, serialization with extraction, and the record
\* after everything else.
steps_in_order(u) ==
    /\ reqs[u].original # << >> /\ reqs[u].stored # << >>
    /\ full_path(reqs[u]) \in DOMAIN files => reqs[u].user_id \in dirs
    /\ reqs[u].exif_data # None => persisted(u)
    /\ reqs[u].md5sum # None => persisted(u)
    /\ reqs[u].exif_json # None <=> reqs[u].exif_data # None
    /\ (reqs[u].size_bytes # None <=> reqs[u].md5sum # None)
    /\ (reqs[u].mime_type # None <=> reqs[u].md5sum # None)
    /\ recorded(u) => /\ reqs[u].pc = "done"
                      /\ reqs[u].exif_json # None
                      /\ reqs[u].md5sum # None

\* C9 (as claimed): the steps of an ingest happen in the order validation,
\* naming, persistence, fingerprint, extraction, serialization, timestamp and
\* insert: the mapping is extracted only when the fingerprint is there.
C9_FingerprintBeforeExtraction ==
    \A u \in DOMAIN reqs :
        /\ steps_in_order(u)
        /\ reqs[u].exif_data # None => reqs[u].md5sum # None

\* C9 (amended): the steps of an ingest happen in the order validation,
\* naming, persistence, extraction, serialization, fingerprint, timestamp and
\* insert: the fingerprint is computed only when the mapping has been
\* extracted and serialized, and the insert is last.
C9_ExtractionBeforeFingerprint ==
    \A u \in DOMAIN reqs :
        /\ steps_in_order(u)
        /\ reqs[u].md5sum # None => reqs[u].exif_json # None

\* C9 witness: an ingest has extracted and serialized the metadata and has no
\* fingerprint yet; another has run through.
C9_Witness ==
    /\ \E u \in DOMAIN reqs :
          /\ reqs[u].pc = "fingerprint"
          /\ reqs[u].exif_json # None
          /\ reqs[u].md5sum = None
    /\ \E v \in DOMAIN reqs : reqs[v].pc = "done" /\ recorded(v)

====
